---- MODULE Spec2Model ----
(***************************************************************************)
(* A model of the JSON-to-Dart converter (zzwqrd/json_dart_web):           *)
(*   - DartGenerator       (script/dart-generator.js), the standard        *)
(*                         renderer;                                       *)
(*   - ModelNewGenerator   (unnamed/part_000), the nested renderer;        *)
(*   - JsonToDartConverter (script/script.js), its bounded history list;   *)
(*   - HistoryManager      (script/script.js), the keyed history store.    *)
(*                                                                         *)
(* Representation.  A JavaScript string without line breaks is a TLA+      *)
(* string.  A text (a string that may hold line breaks) is the non-empty   *)
(* sequence of its lines, i.e. what text.split('\n') returns: '' is <<"">> *)
(* and 'a\nb' is <<"a", "b">>.  A parsed JSON value is a record            *)
(* [kind, lit, items]; a JSON text is a record [valid, value, layout].     *)
(***************************************************************************)
EXTENDS Integers, Sequences, FiniteSets, TLC

VARIABLES
    options,           \* DartGenerator.options of the generator under test
    options2,          \* DartGenerator.options of a second run (two-run comparison)
    currentClassName,  \* ModelNewGenerator.currentClassName: <<>> is undefined
    call,              \* the render call whose outcome its caller has not taken yet
    ret,               \* what that call returned or threw
    ret2,              \* the same, for the second run
    history,           \* JsonToDartConverter.history
    resaves,           \* how many saves of a class name already present were made
    store,             \* localStorage['dart_converter_history'] of HistoryManager
    now,               \* the wall clock read by new Date()
    classNameInput,    \* JsonToDartConverter.classNameInput.value
    jsonInput,         \* JsonToDartConverter.jsonInput.value
    checkboxes,        \* checked, for each of JsonToDartConverter.checkboxes
    dartOutput,        \* JsonToDartConverter.dartOutput.value
    savedHistory       \* localStorage['dart-converter-history']

\* The elements of the page the converter reads and writes
page == <<classNameInput, jsonInput, checkboxes, dartOutput>>

vars == <<options, options2, currentClassName, call, ret, ret2, history, resaves, store, now,
          page, savedHistory>>

(***************************************************************************)
(* Strings                                                                 *)
(***************************************************************************)
CharAt(s, i) == SubSeq(s, i, i)

LowerAlpha == "abcdefghijklmnopqrstuvwxyz"
UpperAlpha == "ABCDEFGHIJKLMNOPQRSTUVWXYZ"
Digits == "0123456789"

InStr(ch, alphabet) == \E i \in 1..Len(alphabet) : CharAt(alphabet, i) = ch

IsLower(ch) == InStr(ch, LowerAlpha)
IsUpper(ch) == InStr(ch, UpperAlpha)
IsDigit(ch) == InStr(ch, Digits)

\* String.prototype.toUpperCase / toLowerCase on one character
ToUpperChar(ch) ==
    IF IsLower(ch)
    THEN CharAt(UpperAlpha, CHOOSE i \in 1..26 : CharAt(LowerAlpha, i) = ch)
    ELSE ch

ToLowerChar(ch) ==
    IF IsUpper(ch)
    THEN CharAt(LowerAlpha, CHOOSE i \in 1..26 : CharAt(UpperAlpha, i) = ch)
    ELSE ch

RECURSIVE toLowerCase(_)
toLowerCase(s) ==
    IF Len(s) = 0 THEN ""
    ELSE ToLowerChar(CharAt(s, 1)) \o toLowerCase(SubSeq(s, 2, Len(s)))

HasPrefix(s, p) == Len(s) >= Len(p) /\ SubSeq(s, 1, Len(p)) = p

HasSuffix(s, p) == Len(s) >= Len(p) /\ SubSeq(s, Len(s) - Len(p) + 1, Len(s)) = p

\* String.prototype.includes
Includes(s, p) == \E i \in 1..(Len(s) - Len(p) + 1) : SubSeq(s, i, i + Len(p) - 1) = p

\* Number -> string, for array indices
RECURSIVE NatToString(_)
NatToString(n) ==
    IF n < 10 THEN CharAt(Digits, n + 1)
    ELSE NatToString(n \div 10) \o CharAt(Digits, (n % 10) + 1)

(***************************************************************************)
(* Texts: sequences of lines                                               *)
(***************************************************************************)
EmptyText == <<"">>

\* a + b on strings that may hold line breaks
Cat(a, b) == SubSeq(a, 1, Len(a) - 1) \o <<a[Len(a)] \o b[1]>> \o Tail(b)

\* Array.prototype.join('\n') of a list of texts
RECURSIVE JoinLines(_)
JoinLines(list) ==
    IF Len(list) = 0 THEN EmptyText
    ELSE IF Len(list) = 1 THEN list[1]
    ELSE list[1] \o JoinLines(Tail(list))

\* Array.prototype.join(sep) of a list of strings, sep without line breaks
RECURSIVE JoinStr(_, _)
JoinStr(list, sep) ==
    IF Len(list) = 0 THEN ""
    ELSE IF Len(list) = 1 THEN list[1]
    ELSE list[1] \o sep \o JoinStr(Tail(list), sep)

\* Array.prototype.join(',\n') of a list of strings: every line but the last ends in a comma
JoinCommaLines(list) ==
    IF Len(list) = 0 THEN EmptyText
    ELSE [i \in 1..Len(list) |-> IF i < Len(list) THEN list[i] \o "," ELSE list[i]]

\* Array.prototype.join('\n\n') of a list of texts: a blank line between two of them
RECURSIVE JoinBlankLines(_)
JoinBlankLines(list) ==
    IF Len(list) = 0 THEN EmptyText
    ELSE IF Len(list) = 1 THEN list[1]
    ELSE list[1] \o <<"">> \o JoinBlankLines(Tail(list))

\* Array.prototype.filter(Boolean) of a list of texts: the empty string is falsy
RECURSIVE FilterBoolean(_)
FilterBoolean(list) ==
    IF Len(list) = 0 THEN <<>>
    ELSE IF list[1] = EmptyText THEN FilterBoolean(Tail(list))
    ELSE <<list[1]>> \o FilterBoolean(Tail(list))

Lines(text) == {text[i] : i \in 1..Len(text)}

(***************************************************************************)
(* JSON values and JSON texts                                              *)
(***************************************************************************)
\* A parsed value.  items are the own enumerable properties, in enumeration
\* order, as [key, value] entries; an array's keys are its indices.
JString(s) == [kind |-> "string", lit |-> s, items |-> <<>>]
JNumber(lit) == [kind |-> "number", lit |-> lit, items |-> <<>>]
JBoolean(lit) == [kind |-> "boolean", lit |-> lit, items |-> <<>>]
JNull == [kind |-> "null", lit |-> "null", items |-> <<>>]
JObject(entries) == [kind |-> "object", lit |-> "", items |-> entries]
JArray(values) ==
    [kind |-> "array", lit |-> "",
     items |-> [i \in 1..Len(values) |-> [key |-> NatToString(i - 1), value |-> values[i]]]]

KV(k, v) == [key |-> k, value |-> v]

\* Array.isArray, typeof, Number.isInteger
IsArray(v) == v.kind = "array"

TypeOf(v) == IF v.kind \in {"object", "array", "null"} THEN "object" ELSE v.kind

\* lit is the text String(value) of the number: an integer has neither a
\* fraction nor a negative exponent
NumberIsInteger(v) == v.kind = "number" /\ ~Includes(v.lit, ".") /\ ~Includes(v.lit, "e-")

\* A JSON text: malformed, or the text of a value in a compact or pretty layout
JsonText(v, layout) == [valid |-> TRUE, value |-> v, layout |-> layout]
MalformedText == [valid |-> FALSE, value |-> JNull, layout |-> "compact"]
EmptyInput == [valid |-> FALSE, value |-> JNull, layout |-> "empty"]

\* JSON.stringify(value, null, 2) as lines; the first line carries no indent
RECURSIVE StringifyLines(_, _)
StringifyLines(v, indent) ==
    CASE v.kind = "string" -> <<"\"" \o v.lit \o "\"">>
      [] v.kind \in {"number", "boolean", "null"} -> <<v.lit>>
      [] v.kind = "object" ->
            IF Len(v.items) = 0 THEN <<"{}">>
            ELSE <<"{">> \o
                 JoinLines([i \in 1..Len(v.items) |->
                    LET member == Cat(<<indent \o "  \"" \o v.items[i].key \o "\": ">>,
                                      StringifyLines(v.items[i].value, indent \o "  "))
                    IN IF i < Len(v.items) THEN Cat(member, <<",">>) ELSE member])
                 \o <<indent \o "}">>
      [] v.kind = "array" ->
            IF Len(v.items) = 0 THEN <<"[]">>
            ELSE <<"[">> \o
                 JoinLines([i \in 1..Len(v.items) |->
                    LET member == Cat(<<indent \o "  ">>,
                                      StringifyLines(v.items[i].value, indent \o "  "))
                    IN IF i < Len(v.items) THEN Cat(member, <<",">>) ELSE member])
                 \o <<indent \o "]">>

\* JSON.stringify(JSON.parse(text), null, 2): the pretty text of the same value
JSONStringify2(v) == JsonText(v, "pretty")

(***************************************************************************)
(* Outcomes of a call                                                      *)
(***************************************************************************)
NoResult == [kind |-> "none", text |-> EmptyText, message |-> ""]
Returned(text) == [kind |-> "text", text |-> text, message |-> ""]
Thrown(message) == [kind |-> "error", text |-> EmptyText, message |-> message]

\* The messages of the engine's own exceptions
SyntaxErrorMessage == "Unexpected token in JSON"
TypeErrorMessage == "Cannot convert undefined or null to object"

(***************************************************************************)
(* DartGenerator: the standard renderer                                    *)
(***************************************************************************)
DefaultOptions ==
    [generateToJson |-> TRUE, generateCopyWith |-> TRUE, generateToString |-> TRUE,
     generateKeys |-> TRUE, useNum |-> FALSE, useSerializable |-> TRUE,
     useEquatable |-> TRUE, useDefaultValue |-> FALSE, generateComment |-> FALSE]

\* { ...this.options, ...options }
setOptions(current, given) ==
    [k \in (DOMAIN current) \cup (DOMAIN given) |->
        IF k \in DOMAIN given THEN given[k] ELSE current[k]]

DartKeywords ==
    {"abstract", "as", "assert", "async", "await", "break", "case", "catch", "class",
     "const", "continue", "default", "deferred", "do", "dynamic", "else", "enum",
     "export", "extends", "external", "factory", "false", "final", "finally", "for",
     "function", "get", "hide", "if", "implements", "import", "in", "interface", "is",
     "library", "mixin", "new", "null", "on", "operator", "part", "rethrow", "return",
     "set", "show", "static", "super", "switch", "sync", "this", "throw", "true", "try",
     "typedef", "var", "void", "while", "with", "yield"}

isDartKeyword(name) == name \in DartKeywords

\* /^[a-zA-Z_][a-zA-Z0-9_]*$/.test(name)
MatchesIdentifier(name) ==
    /\ Len(name) >= 1
    /\ LET c == CharAt(name, 1) IN IsLower(c) \/ IsUpper(c) \/ c = "_"
    /\ \A i \in 2..Len(name) :
          LET c == CharAt(name, i) IN IsLower(c) \/ IsUpper(c) \/ IsDigit(c) \/ c = "_"

isValidDartVariableName_NoKeywordCheck(name) == MatchesIdentifier(name)

isValidDartVariableName(name) == MatchesIdentifier(name) /\ ~isDartKeyword(name)

\* The same replace without the g flag: the first match only
RECURSIVE toCamelCase_FirstMatchOnly(_)
toCamelCase_FirstMatchOnly(str) ==
    IF Len(str) = 0 THEN ""
    ELSE IF CharAt(str, 1) = "_" /\ Len(str) >= 2 /\ IsLower(CharAt(str, 2))
         THEN ToUpperChar(CharAt(str, 2)) \o SubSeq(str, 3, Len(str))
         ELSE CharAt(str, 1) \o toCamelCase_FirstMatchOnly(SubSeq(str, 2, Len(str)))

\* str.replace(/_([a-z])/g, (match, letter) => letter.toUpperCase())
RECURSIVE toCamelCase(_)
toCamelCase(str) ==
    IF Len(str) = 0 THEN ""
    ELSE IF CharAt(str, 1) = "_" /\ Len(str) >= 2 /\ IsLower(CharAt(str, 2))
         THEN ToUpperChar(CharAt(str, 2)) \o toCamelCase(SubSeq(str, 3, Len(str)))
         ELSE CharAt(str, 1) \o toCamelCase(SubSeq(str, 2, Len(str)))

\* An item type taken from the array's last element instead of its first
RECURSIVE inferDartType_LastElement(_, _)
inferDartType_LastElement(opts, value) ==
    IF value.kind = "null" THEN "dynamic"
    ELSE CASE TypeOf(value) = "string" -> "String"
           [] TypeOf(value) = "boolean" -> "bool"
           [] TypeOf(value) = "number" ->
                 IF opts.useNum THEN "num"
                 ELSE IF NumberIsInteger(value) THEN "int" ELSE "double"
           [] TypeOf(value) = "object" ->
                 IF IsArray(value)
                 THEN IF Len(value.items) = 0 THEN "List<dynamic>"
                      ELSE "List<" \o inferDartType_LastElement(opts,
                                         value.items[Len(value.items)].value) \o ">"
                 ELSE "Map<String, dynamic>"
           [] OTHER -> "dynamic"

RECURSIVE inferDartType(_, _)
inferDartType(opts, value) ==
    IF value.kind = "null" THEN "dynamic"
    ELSE CASE TypeOf(value) = "string" -> "String"
           [] TypeOf(value) = "boolean" -> "bool"
           [] TypeOf(value) = "number" ->
                 IF opts.useNum THEN "num"
                 ELSE IF NumberIsInteger(value) THEN "int" ELSE "double"
           [] TypeOf(value) = "object" ->
                 IF IsArray(value)
                 THEN IF Len(value.items) = 0 THEN "List<dynamic>"
                      ELSE "List<" \o inferDartType(opts, value.items[1].value) \o ">"
                 ELSE "Map<String, dynamic>"
           [] OTHER -> "dynamic"

\* Object.entries(obj) of a value other than null: a string's entries are its
\* characters, a number or a boolean has none
ObjectEntries(obj) ==
    IF obj.kind = "string"
    THEN [i \in 1..Len(obj.lit) |-> KV(NatToString(i - 1), JString(CharAt(obj.lit, i)))]
    ELSE obj.items

RECURSIVE ExtractFrom(_, _)
ExtractFrom(opts, entries) ==
    IF Len(entries) = 0 THEN <<>>
    ELSE IF ~isValidDartVariableName(entries[1].key)
         THEN ExtractFrom(opts, Tail(entries))
         ELSE <<[name |-> toCamelCase(entries[1].key),
                 type |-> inferDartType(opts, entries[1].value),
                 jsonKey |-> entries[1].key,
                 value |-> entries[1].value]>>
              \o ExtractFrom(opts, Tail(entries))

extractProperties(opts, obj) == ExtractFrom(opts, ObjectEntries(obj))

generateImports(opts) ==
    LET a == IF opts.useSerializable
             THEN <<"import 'package:json_annotation/json_annotation.dart';">> ELSE <<>>
        b == IF opts.useEquatable
             THEN <<"import 'package:equatable/equatable.dart';">> ELSE <<>>
        c == IF opts.useSerializable THEN <<"", "part 'model.g.dart';">> ELSE <<>>
    IN IF a \o b \o c = <<>> THEN EmptyText ELSE a \o b \o c

generateClassDeclaration(opts, className) ==
    LET annotations == IF opts.useSerializable THEN <<"@JsonSerializable()">> ELSE <<>>
        extendsClause == IF opts.useEquatable THEN " extends Equatable" ELSE ""
    IN annotations \o <<"class " \o className \o extendsClause \o " {">>

FieldLine_AlwaysNonNullable(opts, prop) ==
    "  final " \o prop.type \o " " \o prop.name \o ";"

FieldLine(opts, prop) ==
    LET nullable == IF opts.useDefaultValue THEN "" ELSE "?"
    IN "  final " \o prop.type \o nullable \o " " \o prop.name \o ";"

generateFields(opts, properties) ==
    JoinBlankLines([i \in 1..Len(properties) |->
        LET prop == properties[i]
            annotations == IF opts.generateKeys /\ opts.useSerializable
                           THEN <<"  @JsonKey(name: '" \o prop.jsonKey \o "')">>
                           ELSE <<>>
        IN annotations \o <<FieldLine(opts, prop)>>])

ConstructorParam_RequiredWhenOff(opts, prop) ==
    LET required == IF opts.useDefaultValue THEN "" ELSE "required "
    IN "    " \o required \o "this." \o prop.name

ConstructorParam(opts, prop) ==
    LET required == IF opts.useDefaultValue THEN "required " ELSE ""
    IN "    " \o required \o "this." \o prop.name

generateConstructor(opts, className, properties) ==
    LET params == JoinCommaLines([i \in 1..Len(properties) |->
                                    ConstructorParam(opts, properties[i])])
    IN <<"  const " \o className \o "({">> \o params \o <<"  });">>

getDefaultValue_NoBoolCase(type) ==
    CASE type = "String" -> "''"
      [] type = "int" -> "0"
      [] type = "double" -> "0.0"
      [] type = "num" -> "0"
      [] OTHER -> "null"

getDefaultValue(type) ==
    CASE type = "String" -> "''"
      [] type = "int" -> "0"
      [] type = "double" -> "0.0"
      [] type = "num" -> "0"
      [] type = "bool" -> "false"
      [] OTHER -> "null"

FromJsonAssignment(opts, prop) ==
    LET assignment == "      " \o prop.name \o ": json['" \o prop.jsonKey \o "']"
    IN IF prop.type # "dynamic" /\ ~opts.useDefaultValue
       THEN assignment \o " as " \o prop.type \o "?"
       ELSE IF opts.useDefaultValue
            THEN assignment \o " as " \o prop.type \o "? ?? " \o getDefaultValue(prop.type)
            ELSE assignment

generateFromJson(opts, className, properties) ==
    IF ~opts.useSerializable
    THEN LET assignments == JoinCommaLines([i \in 1..Len(properties) |->
                                              FromJsonAssignment(opts, properties[i])])
         IN <<"  factory " \o className \o ".fromJson(Map<String, dynamic> json) {",
              "    return " \o className \o "(">>
            \o assignments
            \o <<"    );", "  }">>
    ELSE <<"  factory " \o className \o ".fromJson(Map<String, dynamic> json) => _$"
             \o className \o "FromJson(json);">>

\* this.className of a DartGenerator: no code assigns it, so it reads undefined
\* and concatenates as the text "undefined"
ThisClassName == "undefined"

ToJsonEntry(prop) == "      '" \o prop.jsonKey \o "': " \o prop.name

generateToJson(opts, properties) ==
    IF ~opts.generateToJson THEN EmptyText
    ELSE IF ~opts.useSerializable
         THEN LET assignments == JoinCommaLines([i \in 1..Len(properties) |->
                                                   ToJsonEntry(properties[i])])
              IN <<"", "  Map<String, dynamic> toJson() {", "    return {">>
                 \o assignments
                 \o <<"    };", "  }">>
         ELSE <<"", "  Map<String, dynamic> toJson() => _$" \o ThisClassName \o "ToJson(this);">>

CopyWithParam(opts, prop) ==
    LET nullable == IF opts.useDefaultValue THEN "" ELSE "?"
    IN "    " \o prop.type \o nullable \o " " \o prop.name

CopyWithAssignment(prop) ==
    "      " \o prop.name \o ": " \o prop.name \o " ?? this." \o prop.name

generateCopyWith(opts, className, properties) ==
    IF ~opts.generateCopyWith THEN EmptyText
    ELSE LET params == JoinCommaLines([i \in 1..Len(properties) |->
                                         CopyWithParam(opts, properties[i])])
             assignments == JoinCommaLines([i \in 1..Len(properties) |->
                                              CopyWithAssignment(properties[i])])
         IN <<"", "  " \o className \o " copyWith({">>
            \o params
            \o <<"  }) {", "    return " \o className \o "(">>
            \o assignments
            \o <<"    );", "  }">>

generateToString_IgnoresEquatable(opts, className, properties) ==
    IF ~opts.generateToString THEN EmptyText
    ELSE LET propsString ==
               JoinStr([i \in 1..Len(properties) |->
                          properties[i].name \o ": $" \o properties[i].name], ", ")
         IN <<"", "  @override", "  String toString() {",
              "    return '" \o className \o "(" \o propsString \o ")';",
              "  }">>

generateToString(opts, className, properties) ==
    IF ~opts.generateToString THEN EmptyText
    ELSE IF opts.useEquatable
         THEN LET propsList == JoinStr([i \in 1..Len(properties) |-> properties[i].name], ", ")
              IN <<"", "  @override", "  List<Object?> get props => [" \o propsList \o "];">>
         ELSE LET propsString ==
                    JoinStr([i \in 1..Len(properties) |->
                               properties[i].name \o ": $" \o properties[i].name], ", ")
              IN <<"", "  @override", "  String toString() {",
                   "    return '" \o className \o "(" \o propsString \o ")';",
                   "  }">>

\* originalJson is a well-formed text here: generateDartClass parsed it already
generateJsonComment(opts, originalJson) ==
    IF ~opts.generateComment THEN EmptyText
    ELSE LET pretty == StringifyLines(originalJson.value, "")
             formattedJson == [i \in 1..Len(pretty) |-> "// " \o pretty[i]]
         IN Cat(<<"", "", "">>, formattedJson)

buildDartClass(opts, className, jsonObj, originalJson) ==
    LET properties == extractProperties(opts, jsonObj)
        imports == generateImports(opts)
        classDeclaration == generateClassDeclaration(opts, className)
        fields == generateFields(opts, properties)
        constructor == generateConstructor(opts, className, properties)
        fromJson == generateFromJson(opts, className, properties)
        toJson == generateToJson(opts, properties)
        copyWith == generateCopyWith(opts, className, properties)
        toString == generateToString(opts, className, properties)
        jsonComment == generateJsonComment(opts, originalJson)
    IN JoinLines(FilterBoolean(
          <<imports, EmptyText, classDeclaration, fields, EmptyText, constructor,
            EmptyText, fromJson, toJson, copyWith, toString, <<"}">>, jsonComment>>))

EmptyArrayMessage == "Cannot generate class from empty array"

\* The catch of generateDartClass rethrows whatever the try block threw
WrapInvalidJson(message) == Thrown("Invalid JSON: " \o message)

\* The template buildDartClass is given: Object.entries(null) throws a TypeError
BuildOrThrow(opts, className, jsonObj, originalJson) ==
    IF jsonObj.kind = "null" THEN WrapInvalidJson(TypeErrorMessage)
    ELSE Returned(buildDartClass(opts, className, jsonObj, originalJson))

generateDartClass(opts, className, jsonString) ==
    IF ~jsonString.valid THEN WrapInvalidJson(SyntaxErrorMessage)
    ELSE LET jsonObj == jsonString.value
         IN IF IsArray(jsonObj)
            THEN IF Len(jsonObj.items) = 0
                 THEN WrapInvalidJson(EmptyArrayMessage)
                 ELSE BuildOrThrow(opts, className, jsonObj.items[1].value, jsonString)
            ELSE BuildOrThrow(opts, className, jsonObj, jsonString)

(***************************************************************************)
(* ModelNewGenerator: the nested renderer                                  *)
(***************************************************************************)
\* a + b + c + ... on texts
RECURSIVE CatAll(_)
CatAll(list) ==
    IF Len(list) = 0 THEN EmptyText
    ELSE Cat(list[1], CatAll(Tail(list)))

\* text + '\n' and text + '\n\n'
NL(text) == text \o <<"">>
NL2(text) == text \o <<"", "">>

IsBlank(line) == \A i \in 1..Len(line) : CharAt(line, i) = " "

RECURSIVE TrimStartLine(_)
TrimStartLine(line) ==
    IF Len(line) > 0 /\ CharAt(line, 1) = " "
    THEN TrimStartLine(SubSeq(line, 2, Len(line))) ELSE line

RECURSIVE TrimEndLine(_)
TrimEndLine(line) ==
    IF Len(line) > 0 /\ CharAt(line, Len(line)) = " "
    THEN TrimEndLine(SubSeq(line, 1, Len(line) - 1)) ELSE line

\* String.prototype.trim on a text: white space and line breaks at both ends go
RECURSIVE Trim(_)
Trim(text) ==
    IF Len(text) > 1 /\ IsBlank(text[1]) THEN Trim(Tail(text))
    ELSE IF Len(text) > 1 /\ IsBlank(text[Len(text)]) THEN Trim(SubSeq(text, 1, Len(text) - 1))
    ELSE IF Len(text) = 1 THEN <<TrimEndLine(TrimStartLine(text[1]))>>
    ELSE <<TrimStartLine(text[1])>> \o SubSeq(text, 2, Len(text) - 1)
         \o <<TrimEndLine(text[Len(text)])>>

\* a switch of the settings object: a missing key reads undefined, which is falsy
Setting(settings, key) == key \in DOMAIN settings /\ settings[key]

baseImports ==
    <<"import 'dart:convert';", "", "import '../main.dart';", "import 'base.dart';", "">>

capitalize_Unchanged(str) == str

capitalize(str) ==
    IF Len(str) = 0 THEN "" ELSE ToUpperChar(CharAt(str, 1)) \o SubSeq(str, 2, Len(str))

\* this.currentClassName || 'Model'
getCurrentClassName(current) ==
    IF Len(current) = 0 \/ current[1] = "" THEN "Model" ELSE current[1]

setCurrentClassName(className) == <<className>>

\* Object.keys(jsonData) filtered by isValidDartVariableName, with the values
ValidEntries(jsonData) ==
    SelectSeq(ObjectEntries(jsonData), LAMBDA e : isValidDartVariableName(e.key))

\* The category generateProperties and generateFromJson sort a value into
Category(value) ==
    CASE TypeOf(value) = "string" -> "string"
      [] TypeOf(value) = "boolean" -> "bool"
      [] TypeOf(value) = "number" -> IF NumberIsInteger(value) THEN "int" ELSE "double"
      [] TypeOf(value) = "object" /\ value.kind = "object" -> "object"
      [] OTHER -> "none"

PropsOf(jsonData, category) ==
    LET picked == SelectSeq(ValidEntries(jsonData), LAMBDA e : Category(e.value) = category)
    IN [i \in 1..Len(picked) |-> toCamelCase(picked[i].key)]

\* `  late <type> ${props.join(',\n      ')};\n`
LateDeclaration(type, props) ==
    IF Len(props) = 0 THEN EmptyText
    ELSE NL([i \in 1..Len(props) |->
               (IF i = 1 THEN "  late " \o type \o " " ELSE "      ")
               \o props[i] \o (IF i < Len(props) THEN "," ELSE ";")])

New_generateProperties(jsonData) ==
    LET objectProps == PropsOf(jsonData, "object")
        objectLines == CatAll([i \in 1..Len(objectProps) |->
                          NL(<<"  late " \o capitalize(objectProps[i]) \o "Model "
                               \o objectProps[i] \o ";">>)])
    IN Trim(CatAll(<<LateDeclaration("String", PropsOf(jsonData, "string")),
                     LateDeclaration("bool", PropsOf(jsonData, "bool")),
                     LateDeclaration("int", PropsOf(jsonData, "int")),
                     LateDeclaration("double", PropsOf(jsonData, "double")),
                     objectLines>>))

New_FromJsonLine(entry) ==
    LET key == entry.key
        camelKey == toCamelCase(key)
        category == Category(entry.value)
    IN CASE category = "string" ->
              <<"    " \o camelKey \o " = stringFromJson(json, \"" \o key \o "\");">>
         [] category = "bool" ->
              <<"    " \o camelKey \o " = boolFromJson(json, \"" \o key \o "\");">>
         [] category = "int" ->
              <<"    " \o camelKey \o " = intFromJson(json, \"" \o key \o "\");">>
         [] category = "double" ->
              <<"    " \o camelKey \o " = doubleFromJson(json, \"" \o key \o "\");">>
         [] category = "object" ->
              <<"    " \o camelKey \o " = " \o capitalize(camelKey) \o "Model.fromJson(json?[\""
                \o key \o "\"] ?? {});">>
         [] OTHER -> <<>>

New_ConstructorName(current, hasSingleton) ==
    IF hasSingleton THEN "fromJson" ELSE getCurrentClassName(current) \o ".fromJson"

New_generateFromJson(current, jsonData, hasSingleton) ==
    LET entries == ValidEntries(jsonData)
        RECURSIVE Body(_)
        Body(es) == IF Len(es) = 0 THEN <<>>
                    ELSE New_FromJsonLine(es[1]) \o Body(Tail(es))
    IN <<"  " \o New_ConstructorName(current, hasSingleton) \o "([Map<String, dynamic>? json]) {",
         "    id = stringFromJson(json, \"id\");">>
       \o Body(entries)
       \o <<"  }">>

generateSaveMethod_RawKey(className) ==
    <<"  save() {",
      "    Prefs.setString('" \o className \o "', jsonEncode(toJson()));",
      "  }">>

generateSaveMethod(className) ==
    <<"  save() {",
      "    Prefs.setString('" \o toLowerCase(className) \o "', jsonEncode(toJson()));",
      "  }">>

generateClearMethod(className) ==
    <<"  clear() {",
      "    Prefs.remove('" \o toLowerCase(className) \o "');",
      "    fromJson();",
      "  }">>

generateGetMethod(className) ==
    <<"  get() {",
      "    String data = Prefs.getString('" \o toLowerCase(className) \o "') ?? '{}';",
      "    fromJson(jsonDecode(data));",
      "  }">>

New_ToJsonEntry(entry) ==
    LET camelKey == toCamelCase(entry.key)
    IN IF entry.value.kind = "object"
       THEN "        \"" \o entry.key \o "\": " \o camelKey \o ".toJson()"
       ELSE "        \"" \o entry.key \o "\": " \o camelKey

New_generateToJson(jsonData) ==
    LET entries == ValidEntries(jsonData)
        assignments == JoinCommaLines([i \in 1..Len(entries) |-> New_ToJsonEntry(entries[i])])
    IN CatAll(<<<<"  @override", "  Map<String, dynamic> toJson() => {", "        \"id\": id,", "">>,
                Cat(assignments, <<",", "">>),
                <<"      };">>>>)

New_Render(current, className, jsonData, settings) ==
    CatAll(<<
        baseImports,
        <<"class " \o className \o " extends Model {", "">>,
        IF Setting(settings, "singletonPattern")
        THEN <<"  " \o className \o "._();",
               "  static " \o className \o " i = " \o className \o "._();", "", "">>
        ELSE EmptyText,
        NL2(New_generateProperties(jsonData)),
        NL2(New_generateFromJson(current, jsonData, Setting(settings, "singletonPattern"))),
        IF Setting(settings, "localSave") THEN NL2(generateSaveMethod(className)) ELSE EmptyText,
        IF Setting(settings, "localClear") THEN NL2(generateClearMethod(className)) ELSE EmptyText,
        IF Setting(settings, "localGet") THEN NL2(generateGetMethod(className)) ELSE EmptyText,
        NL(New_generateToJson(jsonData)),
        <<"}", "">>,
        IF Setting(settings, "generateJsonComment")
        THEN CatAll(<<<<"", "/*", "">>, StringifyLines(jsonData, ""), <<"", "*/">>>>)
        ELSE EmptyText>>)

\* generate(className, jsonData, settings): nothing catches what it throws
New_generate(current, className, jsonData, settings) ==
    IF IsArray(jsonData) /\ Len(jsonData.items) = 0 THEN Thrown(EmptyArrayMessage)
    ELSE LET template == IF IsArray(jsonData) THEN jsonData.items[1].value ELSE jsonData
         IN IF template.kind = "null" THEN Thrown(TypeErrorMessage)
            ELSE Returned(New_Render(current, className, template, settings))

(***************************************************************************)
(* The inputs the calls are given                                          *)
(***************************************************************************)
SampleUser ==
    JObject(<<KV("id", JNumber("1")), KV("name", JString("Ann")),
              KV("active", JBoolean("true"))>>)

SampleMixed ==
    JObject(<<KV("user_id", JNumber("1.5")), KV("class", JString("x")),
              KV("2nd", JBoolean("false")), KV("tags", JArray(<<>>)),
              KV("addr", JObject(<<KV("city", JString("NYC"))>>)),
              KV("note", JNull), KV("_Tmp", JArray(<<JNumber("2")>>))>>)

\* Two keys with one camel-cased form
SampleCollide == JObject(<<KV("user_id", JNumber("1")), KV("userId", JNumber("2"))>>)

\* Nested objects, under a plain key and under a snake_case key
SampleNested ==
    JObject(<<KV("id", JString("x")), KV("addr", JObject(<<KV("city", JString("NYC"))>>)),
              KV("home_addr", JObject(<<>>))>>)

SampleValues ==
    <<SampleUser, SampleMixed, JArray(<<SampleUser>>), JArray(<<SampleMixed, SampleUser>>),
      JArray(<<>>), JObject(<<>>), JNull, JNumber("5"), SampleCollide, SampleNested>>

\* The texts handed to generateDartClass: each sample in a compact layout, the
\* first one also pretty-printed, and a text that is not JSON
JsonStrings ==
    [i \in 1..Len(SampleValues) |-> JsonText(SampleValues[i], "compact")]
    \o <<JsonText(SampleUser, "pretty"), MalformedText>>

ClassNames == <<"User", "OrderItem">>

OptionKeys == DOMAIN DefaultOptions

AllOff == [k \in OptionKeys |-> FALSE]

\* The objects handed to setOptions: nothing, one switch, or all nine of them
OptionObjects ==
    {<<>>} \cup {[x \in {k} |-> b] : k \in OptionKeys, b \in BOOLEAN}
           \cup {DefaultOptions, AllOff}

\* The settings objects handed to ModelNewGenerator.generate
NewSwitches == {"singletonPattern", "localSave", "localClear", "localGet", "generateJsonComment"}

NewSettings == {<<>>, [generateComment |-> TRUE]} \cup [NewSwitches -> BOOLEAN]

(***************************************************************************)
(* JsonToDartConverter.saveToHistory                                       *)
(***************************************************************************)
MaxHistory == 20

HistoryItem(className, jsonString, timestamp) ==
    [className |-> className, jsonString |-> jsonString, timestamp |-> timestamp]

saveToHistory_KeepsOldEntry(hist, className, jsonString, timestamp) ==
    LET unshifted == <<HistoryItem(className, jsonString, timestamp)>> \o hist
    IN SubSeq(unshifted, 1, IF Len(unshifted) < MaxHistory THEN Len(unshifted) ELSE MaxHistory)

\* filter out the class name, unshift the new item, slice(0, 20)
saveToHistory(hist, className, jsonString, timestamp) ==
    LET filtered == SelectSeq(hist, LAMBDA item : item.className # className)
        unshifted == <<HistoryItem(className, jsonString, timestamp)>> \o filtered
    IN SubSeq(unshifted, 1, IF Len(unshifted) < MaxHistory THEN Len(unshifted) ELSE MaxHistory)

(***************************************************************************)
(* HistoryManager: the keyed store                                         *)
(***************************************************************************)
maxHistoryItems == 50

\* new Date().toISOString() and new Date(text).getTime(): a timestamp text is
\* the instant it denotes, or not a date at all
ToISOString(ms) == [valid |-> TRUE, ms |-> ms]

\* new Date(b.timestamp) - new Date(a.timestamp); NaN compares as 0
CompareNewestFirst(a, b) ==
    IF a.timestamp.valid /\ b.timestamp.valid THEN b.timestamp.ms - a.timestamp.ms ELSE 0

\* Object.keys(obj) of a parsed value other than null
ObjectKeys(obj) == [i \in 1..Len(ObjectEntries(obj)) |-> ObjectEntries(obj)[i].key]

generatePreview(jsonString) ==
    IF ~jsonString.valid \/ jsonString.value.kind = "null" THEN "Invalid JSON"
    ELSE LET all == ObjectKeys(jsonString.value)
             keys == SubSeq(all, 1, IF Len(all) < 3 THEN Len(all) ELSE 3)
         IN IF Len(keys) > 0
            THEN JoinStr(keys, ", ") \o (IF Len(all) > 3 THEN "..." ELSE "")
            ELSE "Empty"

HistoryEntry(className, jsonString, timestamp) ==
    [className |-> className, jsonString |-> jsonString, timestamp |-> timestamp,
     preview |-> generatePreview(jsonString)]

HasKey(obj, key) == \E i \in 1..Len(obj) : obj[i].key = key

\* obj[key] = value: a key already there keeps its place
SetKey(obj, key, value) ==
    IF HasKey(obj, key)
    THEN [i \in 1..Len(obj) |-> IF obj[i].key = key THEN KV(key, value) ELSE obj[i]]
    ELSE Append(obj, KV(key, value))

\* delete obj[key]
DeleteKey(obj, key) == SelectSeq(obj, LAMBDA e : e.key # key)

ValueOf(obj, key) == obj[CHOOSE i \in 1..Len(obj) : obj[i].key = key].value

\* { ...a, ...b }: the keys of a keep their places, the new keys of b follow
Spread(a, b) ==
    [i \in 1..Len(a) |->
        IF HasKey(b, a[i].key) THEN KV(a[i].key, ValueOf(b, a[i].key)) ELSE a[i]]
    \o SelectSeq(b, LAMBDA e : ~HasKey(a, e.key))

\* Array.prototype.sort with the newest-first comparator: the sort is stable,
\* so entry j comes before entry i when it compares as newer, or as equal and
\* was before it
SortNewestFirst(entries) ==
    LET n == Len(entries)
        Before(j, i) ==
            LET c == CompareNewestFirst(entries[j].value, entries[i].value)
            IN c < 0 \/ (c = 0 /\ j < i)
        rank == [i \in 1..n |-> 1 + Cardinality({j \in 1..n : Before(j, i)})]
    IN [r \in 1..n |-> entries[CHOOSE i \in 1..n : rank[i] = r]]

HM_saveToHistory(stored, className, jsonString, nowMs) ==
    LET hist == SetKey(stored, className,
                       HistoryEntry(className, jsonString, ToISOString(nowMs)))
    IN IF Len(hist) > maxHistoryItems
       THEN SubSeq(SortNewestFirst(hist), 1, maxHistoryItems)
       ELSE hist

HM_deleteHistoryItem(stored, className) == DeleteKey(stored, className)

\* The onload callback of importHistory: a file that does not parse changes nothing
HM_importHistory(stored, file) ==
    IF ~file.valid THEN stored ELSE Spread(stored, file.entries)

(***************************************************************************)
(* The state machine                                                       *)
(***************************************************************************)
NoJson == EmptyInput

\* The checkboxes of the page; the nine switches of the standard renderer
\* start as the generator has them, the five of the nested renderer unchecked
CheckboxKeys ==
    OptionKeys \cup {"modelNew", "singletonPattern", "localSave", "localClear", "localGet"}

DefaultCheckboxes ==
    [k \in CheckboxKeys |-> IF k \in OptionKeys THEN DefaultOptions[k] ELSE FALSE]

Call(op, className, json, settings) ==
    [op |-> op, className |-> className, json |-> json, settings |-> settings]

NoCall == Call("none", "", NoJson, <<>>)

Init ==
    /\ options = DefaultOptions
    /\ options2 = DefaultOptions
    /\ currentClassName = <<>>
    /\ call = NoCall
    /\ ret = NoResult
    /\ ret2 = NoResult
    /\ history = <<>>
    /\ resaves = 0
    /\ store = <<>>
    /\ now = 0
    /\ classNameInput = ""
    /\ jsonInput = EmptyInput
    /\ checkboxes = DefaultCheckboxes
    /\ dartOutput = EmptyText
    /\ savedHistory = <<>>

\* No render call is waiting for its caller to take the outcome
Idle == call.op = "none"

\* The caller takes what the call returned or threw
Return ==
    /\ ~Idle
    /\ call' = NoCall
    /\ ret' = NoResult
    /\ ret2' = NoResult
    /\ UNCHANGED <<page, savedHistory, options, options2, currentClassName, history, resaves, store, now>>

\* dartGenerator.setOptions(given)
SetOptions(given) ==
    /\ Idle
    /\ options' = setOptions(options, given)
    /\ UNCHANGED <<page, savedHistory, options2, currentClassName, call, ret, ret2, history, resaves, store, now>>

\* dartGenerator.generateDartClass(className, jsonString)
GenerateDartClass(className, jsonString) ==
    /\ Idle
    /\ ret' = generateDartClass(options, className, jsonString)
    /\ call' = Call("generateDartClass", className, jsonString, <<>>)
    /\ UNCHANGED <<page, savedHistory, options, options2, currentClassName, ret2, history, resaves, store, now>>

Next ==
    \/ \E given \in OptionObjects : SetOptions(given)
    \/ \E c \in 1..Len(ClassNames), j \in 1..Len(JsonStrings) :
          GenerateDartClass(ClassNames[c], JsonStrings[j])
    \/ Return

Spec == Init /\ [][Next]_vars

\* modelNewGenerator.setCurrentClassName(className)
SetCurrentClassName(className) ==
    /\ Idle
    /\ currentClassName' = setCurrentClassName(className)
    /\ UNCHANGED <<page, savedHistory, options, options2, call, ret, ret2, history, resaves, store, now>>

\* modelNewGenerator.generate(className, jsonData, settings)
Generate(className, jsonData, settings) ==
    /\ Idle
    /\ ret' = New_generate(currentClassName, className, jsonData, settings)
    /\ call' = Call("generate", className, JsonText(jsonData, "parsed"), settings)
    /\ UNCHANGED <<page, savedHistory, options, options2, currentClassName, ret2, history, resaves, store, now>>

NextNew ==
    \/ \E c \in 1..Len(ClassNames) : SetCurrentClassName(ClassNames[c])
    \/ \E c \in 1..Len(ClassNames), j \in 1..Len(SampleValues), settings \in NewSettings :
          Generate(ClassNames[c], SampleValues[j], settings)
    \/ Return

SpecNew == Init /\ [][NextNew]_vars

(***************************************************************************)
(* Reading a rendered text back                                            *)
(***************************************************************************)
StdReturned == call.op = "generateDartClass" /\ ret.kind = "text"

\* The template a render call works from: the first element of an array
TemplateOf(v) == IF IsArray(v) /\ Len(v.items) > 0 THEN v.items[1].value ELSE v

LastSpace(s) == CHOOSE i \in 0..Len(s) :
    /\ i > 0 => CharAt(s, i) = " "
    /\ \A j \in (i + 1)..Len(s) : CharAt(s, j) # " "

StripComma(line) ==
    IF HasSuffix(line, ",") THEN SubSeq(line, 1, Len(line) - 1) ELSE line

\* The declared fields, in order: `  final <type> <name>;`
FieldDecls(text) ==
    LET fieldLines == SelectSeq(text, LAMBDA l : HasPrefix(l, "  final ") /\ HasSuffix(l, ";"))
    IN [i \in 1..Len(fieldLines) |->
          LET decl == SubSeq(fieldLines[i], 9, Len(fieldLines[i]) - 1)
              k == LastSpace(decl)
          IN [type |-> SubSeq(decl, 1, k - 1), name |-> SubSeq(decl, k + 1, Len(decl))]]

FirstLine(text, from, line) ==
    IF \E i \in from..Len(text) : text[i] = line
    THEN CHOOSE i \in from..Len(text) : text[i] = line /\ \A j \in from..(i - 1) : text[j] # line
    ELSE 0

\* The lines between an opening line and the first closing line after it
Block(text, open, close) ==
    LET s == FirstLine(text, 1, open)
        e == IF s = 0 THEN 0 ELSE FirstLine(text, s + 1, close)
    IN IF s = 0 \/ e = 0 THEN <<>> ELSE SubSeq(text, s + 1, e - 1)

\* The parameters of the constructor, in order: `    [required ]this.<name>`
CtorParams(text, className) ==
    LET body == SelectSeq(Block(text, "  const " \o className \o "({", "  });"),
                          LAMBDA l : ~IsBlank(l))
    IN [i \in 1..Len(body) |->
          LET l == StripComma(body[i])
          IN IF HasPrefix(l, "    required this.")
             THEN [required |-> TRUE, name |-> SubSeq(l, 19, Len(l)), wellFormed |-> TRUE]
             ELSE IF HasPrefix(l, "    this.")
                  THEN [required |-> FALSE, name |-> SubSeq(l, 10, Len(l)), wellFormed |-> TRUE]
                  ELSE [required |-> FALSE, name |-> l, wellFormed |-> FALSE]]

\* The body of the literal fromJson factory, one line per named argument
FactoryArgs(text, className) ==
    LET f == FirstLine(text, 1, "  factory " \o className
                                 \o ".fromJson(Map<String, dynamic> json) {")
        s == IF f = 0 THEN 0 ELSE FirstLine(text, f + 1, "    return " \o className \o "(")
        e == IF s = 0 THEN 0 ELSE FirstLine(text, s + 1, "    );")
        body == IF s # f + 1 \/ e = 0 THEN <<>>
                ELSE SelectSeq(SubSeq(text, s + 1, e - 1), LAMBDA l : ~IsBlank(l))
    IN [i \in 1..Len(body) |-> StripComma(body[i])]

IsNullableType(type) == HasSuffix(type, "?")

(***************************************************************************)
(* Claims about the standard renderer                                      *)
(***************************************************************************)
\* What kind of failure a thrown message reports
FailureKind(message) ==
    IF HasPrefix(message, "Invalid JSON: ") THEN "InvalidJson"
    ELSE IF message = EmptyArrayMessage THEN "EmptyTemplate"
    ELSE "Other"

EmptyArrayInput == call.json.valid /\ IsArray(call.json.value) /\ Len(call.json.value.items) = 0

\* C3: for an empty array input a renderer returns no text and fails with
\* EmptyTemplateError, a failure kind that is not the invalid-JSON failure.
C3_EmptyArrayFailsAsEmptyTemplate ==
    (call.op \in {"generateDartClass", "generate"} /\ EmptyArrayInput)
        => /\ ret.kind = "error"
           /\ ret.text = EmptyText
           /\ FailureKind(ret.message) = "EmptyTemplate"

NonEmptyArrayInput == call.json.valid /\ IsArray(call.json.value) /\ Len(call.json.value.items) > 0

\* C4: the text rendered for a non-empty array is the text rendered for its
\* first element alone, for every class name and every combination of switches.
C4_ArrayRendersAsFirstElement ==
    (call.op = "generateDartClass" /\ NonEmptyArrayInput)
        => ret = generateDartClass(options, call.className,
                                   JsonText(call.json.value.items[1].value, call.json.layout))

\* C7: with generateToJson and useSerializable on, toJson delegates to
\* _$<className>ToJson, the className of the class and of _$<className>FromJson;
\* with useSerializable off it is a literal map; with generateToJson off there
\* is no toJson method.
C7_ToJsonHelperNamedAfterClass ==
    StdReturned =>
        LET delegating == "  Map<String, dynamic> toJson() => _$" \o call.className \o "ToJson(this);"
            literal == "  Map<String, dynamic> toJson() {"
            anyToJson == \E i \in 1..Len(ret.text) : Includes(ret.text[i], " toJson()")
        IN /\ (options.generateToJson /\ options.useSerializable)
                => /\ delegating \in Lines(ret.text)
                   /\ ("  factory " \o call.className
                        \o ".fromJson(Map<String, dynamic> json) => _$"
                        \o call.className \o "FromJson(json);") \in Lines(ret.text)
           /\ (options.generateToJson /\ ~options.useSerializable)
                => literal \in Lines(ret.text) /\ delegating \notin Lines(ret.text)
           /\ ~options.generateToJson => ~anyToJson

ParamsMatchFields(text, className) ==
    LET fields == FieldDecls(text)
        params == CtorParams(text, className)
    IN /\ Len(params) = Len(fields)
       /\ \A i \in 1..Len(params) : params[i].wellFormed /\ params[i].name = fields[i].name

\* C8 as stated: one named parameter per rendered field, each marked
\* `required` if and only if useDefaultValue is off.
C8_RequiredIffDefaultOff ==
    StdReturned =>
        /\ ParamsMatchFields(ret.text, call.className)
        /\ \A i \in 1..Len(CtorParams(ret.text, call.className)) :
              CtorParams(ret.text, call.className)[i].required <=> ~options.useDefaultValue

\* C8 (amended): one named parameter per rendered field, each marked
\* `required` if and only if useDefaultValue is on.
C8_RequiredIffDefaultOn ==
    StdReturned =>
        /\ ParamsMatchFields(ret.text, call.className)
        /\ \A i \in 1..Len(CtorParams(ret.text, call.className)) :
              CtorParams(ret.text, call.className)[i].required <=> options.useDefaultValue

C8_Witness ==
    /\ StdReturned
    /\ options.useDefaultValue
    /\ call.json.value = SampleUser
    /\ CtorParams(ret.text, call.className) =
          <<[required |-> TRUE, name |-> "id", wellFormed |-> TRUE],
            [required |-> TRUE, name |-> "name", wellFormed |-> TRUE],
            [required |-> TRUE, name |-> "active", wellFormed |-> TRUE]>>

\* C9: with useDefaultValue off every field is declared `final <type>? <name>`
\* and no constructor parameter is marked `required`; under the default
\* number typing the sample {"id":1,"name":"Ann","active":true} declares
\* int? id, String? name, bool? active.
C9_NullableFieldsNoneRequired ==
    (StdReturned /\ ~options.useDefaultValue) =>
        /\ \A i \in 1..Len(FieldDecls(ret.text)) : IsNullableType(FieldDecls(ret.text)[i].type)
        /\ ParamsMatchFields(ret.text, call.className)
        /\ \A i \in 1..Len(ret.text) : ~Includes(ret.text[i], "required")
        /\ (TemplateOf(call.json.value) = SampleUser /\ ~options.useNum)
              => FieldDecls(ret.text) = <<[type |-> "int?", name |-> "id"],
                                          [type |-> "String?", name |-> "name"],
                                          [type |-> "bool?", name |-> "active"]>>

C9_Witness ==
    /\ StdReturned
    /\ options = DefaultOptions
    /\ call.json.value = SampleUser
    /\ "  final int? id;" \in Lines(ret.text)
    /\ "    this.id," \in Lines(ret.text)

\* The zero value the claim names for a type
ZeroValue(type) ==
    CASE type = "int" -> "0"
      [] type = "String" -> "''"
      [] type = "bool" -> "false"
      [] type = "double" -> "0.0"
      [] type = "num" -> "0"
      [] OTHER -> "null"

FieldsNonNullable(text) ==
    \A i \in 1..Len(FieldDecls(text)) : ~IsNullableType(FieldDecls(text)[i].type)

\* Every declared field has one argument of the literal factory, which reads
\* a key of the sample and falls back to the zero value of the field's type
FactorySuppliesZeros(text, className, template) ==
    LET fields == FieldDecls(text)
        args == FactoryArgs(text, className)
    IN /\ Len(args) = Len(fields)
       /\ \A i \in 1..Len(fields) :
             \E e \in {template.items[k] : k \in 1..Len(template.items)} :
                 args[i] = "      " \o fields[i].name \o ": json['" \o e.key \o "'] as "
                           \o fields[i].type \o "? ?? " \o ZeroValue(fields[i].type)

ArgName(line) ==
    LET colon == CHOOSE i \in 1..(Len(line) + 1) :
                    /\ i <= Len(line) => CharAt(line, i) = ":"
                    /\ \A j \in 1..(i - 1) : CharAt(line, j) # ":"
    IN TrimStartLine(SubSeq(line, 1, colon - 1))

\* The entries of the literal toJson map, one line each: `      '<key>': <name>`
ToJsonEntries(text) ==
    LET f == FirstLine(text, 1, "  Map<String, dynamic> toJson() {")
        s == IF f = 0 THEN 0 ELSE FirstLine(text, f + 1, "    return {")
        e == IF s = 0 THEN 0 ELSE FirstLine(text, s + 1, "    };")
        body == IF s # f + 1 \/ e = 0 THEN <<>>
                ELSE SelectSeq(SubSeq(text, s + 1, e - 1), LAMBDA l : ~IsBlank(l))
    IN [i \in 1..Len(body) |-> StripComma(body[i])]

\* The identifier an entry of the toJson map reads
EntryName(line) == SubSeq(line, LastSpace(line) + 1, Len(line))

Occurrences(names, name) == Cardinality({k \in 1..Len(names) : names[k] = name})

\* C13: with useSerializable off, each declared field identifier is exactly
\* one named argument of the fromJson factory and, with generateToJson on,
\* exactly one entry of the toJson map.
C13_FieldOnceInFactoryAndMap ==
    (StdReturned /\ ~options.useSerializable) =>
        LET fields == FieldDecls(ret.text)
            args == FactoryArgs(ret.text, call.className)
            entries == ToJsonEntries(ret.text)
            argNames == [k \in 1..Len(args) |-> ArgName(args[k])]
            entryNames == [k \in 1..Len(entries) |-> EntryName(entries[k])]
        IN \A i \in 1..Len(fields) :
              /\ Occurrences(argNames, fields[i].name) = 1
              /\ options.generateToJson => Occurrences(entryNames, fields[i].name) = 1

\* The descriptors the text was rendered from
DescriptorsOf(opts, json) == extractProperties(opts, TemplateOf(json.value))

HasToString(text) == \E i \in 1..Len(text) : Includes(text[i], "toString()")

PropsAccessors(text) == SelectSeq(text, LAMBDA l : Includes(l, " get props"))

\* C14: with generateToString off neither toString nor the props accessor is
\* emitted; with it on and useEquatable off a toString method is emitted;
\* with both on the props accessor, listing the field identifiers in
\* descriptor order, is emitted instead of toString.
C14_ToStringOrProps ==
    StdReturned =>
        LET descriptors == DescriptorsOf(options, call.json)
            names == [i \in 1..Len(descriptors) |-> descriptors[i].name]
        IN /\ ~options.generateToString
                => ~HasToString(ret.text) /\ PropsAccessors(ret.text) = <<>>
           /\ (options.generateToString /\ ~options.useEquatable)
                => /\ "  String toString() {" \in Lines(ret.text)
                   /\ PropsAccessors(ret.text) = <<>>
           /\ (options.generateToString /\ options.useEquatable)
                => /\ ~HasToString(ret.text)
                   /\ PropsAccessors(ret.text) =
                         <<"  List<Object?> get props => [" \o JoinStr(names, ", ") \o "];">>

C14_Witness ==
    /\ StdReturned
    /\ options.generateToString
    /\ options.useEquatable
    /\ call.json.value = SampleUser
    /\ "  List<Object?> get props => [id, name, active];" \in Lines(ret.text)

\* The parameters and the arguments of copyWith, one line each
CopyWithParams(text, className) ==
    LET body == Block(text, "  " \o className \o " copyWith({", "  }) {")
    IN [i \in 1..Len(body) |-> StripComma(body[i])]

CopyWithArgs(text, className) ==
    LET f == FirstLine(text, 1, "  " \o className \o " copyWith({")
        s == IF f = 0 THEN 0 ELSE FirstLine(text, f + 1, "    return " \o className \o "(")
        e == IF s = 0 THEN 0 ELSE FirstLine(text, s + 1, "    );")
        body == IF s = 0 \/ e = 0 THEN <<>> ELSE SubSeq(text, s + 1, e - 1)
    IN [i \in 1..Len(body) |-> StripComma(body[i])]

HasCopyWith(text) == \E i \in 1..Len(text) : Includes(text[i], " copyWith(")

NonBlank(lines) == SelectSeq(lines, LAMBDA l : ~IsBlank(l))

\* C15: copyWith is emitted if and only if generateCopyWith is on, and for
\* every combination of the other switches it declares one nullable parameter
\* `<type>? <name>` per field and passes `<name> ?? this.<name>` for each.
C15_CopyWithNullableParams ==
    StdReturned =>
        LET descriptors == DescriptorsOf(options, call.json)
        IN /\ HasCopyWith(ret.text) <=> options.generateCopyWith
           /\ options.generateCopyWith =>
                 /\ NonBlank(CopyWithParams(ret.text, call.className)) =
                       [i \in 1..Len(descriptors) |->
                           "    " \o descriptors[i].type \o "? " \o descriptors[i].name]
                 /\ NonBlank(CopyWithArgs(ret.text, call.className)) =
                       [i \in 1..Len(descriptors) |->
                           "      " \o descriptors[i].name \o ": " \o descriptors[i].name
                           \o " ?? this." \o descriptors[i].name]

\* The class header lines of a text: `class <name>[ extends Equatable] {`
ClassHeaders(text) == SelectSeq(text, LAMBDA l : HasPrefix(l, "class "))

HeaderExtendsEquatable(text) ==
    \E i \in 1..Len(ClassHeaders(text)) : Includes(ClassHeaders(text)[i], " extends Equatable")

\* C24: for every combination of switches the class header carries
\* `extends Equatable` if and only if useEquatable is on, and a class whose
\* header carries it has the props accessor in its body.
C24_EquatableHeaderHasProps ==
    StdReturned =>
        /\ ClassHeaders(ret.text) =
              <<"class " \o call.className
                \o (IF options.useEquatable THEN " extends Equatable" ELSE "") \o " {">>
        /\ HeaderExtendsEquatable(ret.text) <=> options.useEquatable
        /\ HeaderExtendsEquatable(ret.text) => PropsAccessors(ret.text) # <<>>

(***************************************************************************)
(* Claims about the nested renderer                                        *)
(***************************************************************************)
NewReturned == call.op = "generate" /\ ret.kind = "text"

\* C6: the initializer in the text of generate(className, json, settings) is
\* named `fromJson` with singletonPattern on and `<className>.fromJson`
\* otherwise, className being the argument of that call, whatever calls of
\* setCurrentClassName or generate came before.
C6_InitializerNamedAfterArgument ==
    NewReturned =>
        LET name == IF Setting(call.settings, "singletonPattern") THEN "fromJson"
                    ELSE call.className \o ".fromJson"
        IN ("  " \o name \o "([Map<String, dynamic>? json]) {") \in Lines(ret.text)

\* The storage key the claim gives a class name: the name in lower case
StorageKey(className) ==
    CASE className = "User" -> "user"
      [] className = "OrderItem" -> "orderitem"

\* C16: the private constructor and the static instance field are emitted
\* iff singletonPattern is on, save() iff localSave, clear() iff localClear,
\* get() iff localGet, each whatever the other switches are; every emitted
\* persistence method uses the lower-cased class name as its storage key.
C16_OptionalSectionsBySwitch ==
    NewReturned =>
        LET lines == Lines(ret.text)
            c == call.className
            key == StorageKey(c)
            on(switch) == Setting(call.settings, switch)
        IN /\ IF on("singletonPattern")
              THEN ("  " \o c \o "._();") \in lines
                   /\ ("  static " \o c \o " i = " \o c \o "._();") \in lines
              ELSE \A l \in lines : ~Includes(l, "._()")
           /\ "  save() {" \in lines <=> on("localSave")
           /\ "  clear() {" \in lines <=> on("localClear")
           /\ "  get() {" \in lines <=> on("localGet")
           /\ on("localSave")
                 => ("    Prefs.setString('" \o key \o "', jsonEncode(toJson()));") \in lines
           /\ on("localClear") => ("    Prefs.remove('" \o key \o "');") \in lines
           /\ on("localGet")
                 => ("    String data = Prefs.getString('" \o key \o "') ?? '{}';") \in lines
           /\ \A l \in lines : Includes(l, "Prefs.") => Includes(l, "('" \o key \o "'")
           /\ (\E l \in lines : Includes(l, "Prefs."))
                 <=> (on("localSave") \/ on("localClear") \/ on("localGet"))

C16_Witness ==
    /\ NewReturned
    /\ call.className = "OrderItem"
    /\ \A switch \in {"singletonPattern", "localSave", "localClear", "localGet"} :
          Setting(call.settings, switch)
    /\ "    Prefs.setString('orderitem', jsonEncode(toJson()));" \in Lines(ret.text)
    /\ "  static OrderItem i = OrderItem._();" \in Lines(ret.text)

\* The identifier and the model type the claim gives a nested-object key
NestedIdentifier(key) ==
    CASE key = "addr" -> "addr"
      [] key = "home_addr" -> "homeAddr"

NestedType(key) ==
    CASE key = "addr" -> "AddrModel"
      [] key = "home_addr" -> "HomeAddrModel"

NestedKeys(template) ==
    {template.items[i].key : i \in {j \in 1..Len(template.items) :
                                      template.items[j].value.kind = "object"}}

\* C18: for every sample, with an "id" key or without, the initializer
\* assigns id = stringFromJson(json, "id") and the toJson map has an
\* "id": id entry; every nested-object key k with identifier c has a field
\* of type Capitalize(c)Model named c, assigned by
\* <Capitalize(c)>Model.fromJson(json?["k"] ?? {}), and the nested class
\* itself is not emitted.
C18_SyntheticIdAndNestedFields ==
    NewReturned =>
        LET lines == Lines(ret.text)
            template == TemplateOf(call.json.value)
        IN /\ "    id = stringFromJson(json, \"id\");" \in lines
           /\ "        \"id\": id," \in lines
           /\ \A k \in NestedKeys(template) :
                 /\ \E l \in lines :
                       TrimStartLine(l) = "late " \o NestedType(k) \o " "
                                          \o NestedIdentifier(k) \o ";"
                 /\ ("    " \o NestedIdentifier(k) \o " = " \o NestedType(k)
                      \o ".fromJson(json?[\"" \o k \o "\"] ?? {});") \in lines
                 /\ \A l \in lines : ~Includes(l, "class " \o NestedType(k))

C18_Witness ==
    /\ NewReturned
    /\ call.json.value = SampleMixed
    /\ "    id = stringFromJson(json, \"id\");" \in Lines(ret.text)
    /\ "  late AddrModel addr;" \in Lines(ret.text)
    /\ "    addr = AddrModel.fromJson(json?[\"addr\"] ?? {});" \in Lines(ret.text)

\* The first line with the given ending, 0 when there is none
FirstEnding(text, ending) ==
    IF \E i \in 1..Len(text) : HasSuffix(text[i], ending)
    THEN CHOOSE i \in 1..Len(text) :
            HasSuffix(text[i], ending) /\ \A j \in 1..(i - 1) : ~HasSuffix(text[j], ending)
    ELSE 0

\* The line that opens the initializer: `  <name>([Map<String, dynamic>? json]) {`
InitializerLine(text) == FirstEnding(text, "([Map<String, dynamic>? json]) {")

\* A line without its closing `,` or `;`
StripEnd(line) ==
    IF HasSuffix(line, ",") \/ HasSuffix(line, ";")
    THEN SubSeq(line, 1, Len(line) - 1) ELSE line

\* The identifiers the class declares: the last word of each `late` line and
\* of each line continuing one, between the class header and the initializer
NewDeclared(text, className) ==
    LET s == FirstLine(text, 1, "class " \o className \o " extends Model {")
        e == InitializerLine(text)
        body == IF s = 0 \/ e = 0 THEN <<>>
                ELSE SelectSeq(SubSeq(text, s + 1, e - 1),
                               LAMBDA l : ~IsBlank(l) /\ ~Includes(l, "._()"))
    IN {EntryName(StripEnd(body[i])) : i \in 1..Len(body)}

\* The identifiers the initializer assigns: `    <name> = ...;`
NewAssigned(text) ==
    LET s == InitializerLine(text)
        e == IF s = 0 THEN 0 ELSE FirstLine(text, s + 1, "  }")
        body == IF s = 0 \/ e = 0 THEN <<>> ELSE SubSeq(text, s + 1, e - 1)
        Target(l) ==
            LET t == TrimStartLine(l)
                eq == CHOOSE i \in 1..(Len(t) + 1) :
                         /\ i <= Len(t) => CharAt(t, i) = " "
                         /\ \A j \in 1..(i - 1) : CharAt(t, j) # " "
            IN SubSeq(t, 1, eq - 1)
    IN {Target(body[i]) : i \in 1..Len(body)}

\* The identifiers the toJson map reads: `        "<key>": <name>[.toJson()]`
NewSerialized(text) ==
    LET body == Block(text, "  Map<String, dynamic> toJson() => {", "      };")
        Read(l) ==
            LET name == EntryName(StripEnd(l))
            IN IF HasSuffix(name, ".toJson()") THEN SubSeq(name, 1, Len(name) - 9) ELSE name
    IN {Read(body[i]) : i \in 1..Len(body)} \ {""}

\* C22: in the text of the nested renderer every identifier the toJson map
\* reads, other than id, is a declared field that the initializer assigns:
\* the identifiers declared, assigned and serialized are the same.
C22_DeclaredAssignedSerializedAgree ==
    NewReturned =>
        LET declared == NewDeclared(ret.text, call.className) \ {"id"}
            assigned == NewAssigned(ret.text) \ {"id"}
            serialized == NewSerialized(ret.text) \ {"id"}
        IN /\ serialized \subseteq declared
           /\ serialized \subseteq assigned
           /\ declared = serialized
           /\ assigned = serialized

\* The text declares a member with exactly this name: `  <name>(...) {`
DeclaresMember(text, name) ==
    \E i \in 1..Len(text) :
        HasPrefix(TrimStartLine(text[i]), name \o "(") /\ HasSuffix(text[i], "{")

\* The text calls the name as a member of the instance: `    <name>(...);`
CallsMember(text, name) ==
    \E i \in 1..Len(text) :
        HasPrefix(TrimStartLine(text[i]), name \o "(") /\ HasSuffix(text[i], ";")

\* C23: for every combination of singletonPattern, localClear and localGet,
\* a text with a clear() or get() method, which call fromJson(...) as a
\* member of the instance, also declares a member named exactly fromJson.
C23_FromJsonMemberDeclaredWhenCalled ==
    NewReturned =>
        (DeclaresMember(ret.text, "clear") \/ DeclaresMember(ret.text, "get")
            => /\ CallsMember(ret.text, "fromJson")
               /\ DeclaresMember(ret.text, "fromJson"))

(***************************************************************************)
(* Two runs of one DartGenerator, for comparing what they return           *)
(***************************************************************************)
PairOptionObjects ==
    {<<>>, [generateComment |-> TRUE], [useNum |-> TRUE], [useNum |-> FALSE],
     DefaultOptions, AllOff}

PairJsonStrings == SubSeq(JsonStrings, 1, 3)

\* An earlier setOptions(given) of the second run
SetOptions2(given) ==
    /\ Idle
    /\ options2' = setOptions(options2, given)
    /\ UNCHANGED <<page, savedHistory, options, currentClassName, call, ret, ret2, history, resaves, store, now>>

\* Both runs make the same two calls: setOptions(given), then
\* generateDartClass(className, jsonString)
RenderBoth(given, className, jsonString) ==
    /\ Idle
    /\ options' = setOptions(options, given)
    /\ options2' = setOptions(options2, given)
    /\ ret' = generateDartClass(options', className, jsonString)
    /\ ret2' = generateDartClass(options2', className, jsonString)
    /\ call' = Call("setOptions;generateDartClass", className, jsonString, given)
    /\ UNCHANGED <<page, savedHistory, currentClassName, history, resaves, store, now>>

NextPair ==
    \/ \E given \in PairOptionObjects : SetOptions(given)
    \/ \E given \in PairOptionObjects : SetOptions2(given)
    \/ \E c \in 1..Len(ClassNames), j \in 1..Len(PairJsonStrings) :
          GenerateDartClass(ClassNames[c], PairJsonStrings[j])
    \/ \E given \in PairOptionObjects, c \in 1..Len(ClassNames), j \in 1..Len(PairJsonStrings) :
          RenderBoth(given, ClassNames[c], PairJsonStrings[j])
    \/ Return

SpecPair == Init /\ [][NextPair]_vars

\* C5: setOptions(O) followed by generateDartClass(className, json) returns a
\* text that depends only on (className, json, O): two runs that differ only
\* in their earlier calls return the same text.
C5_RenderIndependentOfEarlierCalls ==
    call.op = "setOptions;generateDartClass" => ret = ret2

(***************************************************************************)
(* The history list of JsonToDartConverter                                 *)
(***************************************************************************)
\* Class names to save under
NumNames == 22

Name(i) == "Class" \o NatToString(i)

\* Saves of a class name already in the list, per run
MaxResaves == 1

\* convert() saves the pretty-printed text of what it parsed
HistoryJsons == <<JSONStringify2(SampleUser), JSONStringify2(JObject(<<>>))>>

Names == [i \in 1..NumNames |-> Name(i)]

ClassNamesIn(hist) == {hist[i].className : i \in 1..Len(hist)}

\* New class names come in the order Name(1), Name(2), ...: the next one
\* follows the latest one saved, which is still in the list
NewNames(hist) ==
    LET present == {i \in 1..NumNames : Names[i] \in ClassNamesIn(hist)}
        latest == IF present = {} THEN 0 ELSE CHOOSE i \in present : \A j \in present : j <= i
    IN IF latest < NumNames THEN {Names[latest + 1]} ELSE {}

\* The class names saved again: those at both ends of the list, next to the
\* front, and in the middle
ResaveNames(hist) ==
    LET n == Len(hist)
    IN {hist[p].className : p \in {1, 2, (n + 1) \div 2, n} \cap (1..n)}

\* converter.saveToHistory(className, jsonString)
SaveToHistory(className, jsonString) ==
    /\ className \in ClassNamesIn(history) => resaves < MaxResaves
    /\ resaves' = IF className \in ClassNamesIn(history) THEN resaves + 1 ELSE resaves
    /\ history' = saveToHistory(history, className, jsonString, now)
    /\ savedHistory' = history'
    /\ call' = Call("saveToHistory", className, jsonString, <<>>)
    /\ UNCHANGED <<page, options, options2, currentClassName, ret, ret2, store, now>>

NextHistory ==
    \/ \E className \in NewNames(history) : SaveToHistory(className, HistoryJsons[1])
    \/ \E className \in ResaveNames(history), j \in 1..Len(HistoryJsons) :
          SaveToHistory(className, HistoryJsons[j])

SpecHistory == Init /\ [][NextHistory]_vars

NoDuplicateClassName(hist) ==
    \A i, j \in 1..Len(hist) : hist[i].className = hist[j].className => i = j

\* C1: after every saveToHistory(className, json) the history holds at most
\* 20 entries, no two with the same className, and the entry just saved is at
\* index 0; saving a className already present replaces its entry (the
\* length stays), saving a new one adds one entry up to the limit of 20.
C1_HistoryBoundedDistinctNewestFirst ==
    [][call'.op = "saveToHistory" =>
          /\ Len(history') <= 20
          /\ NoDuplicateClassName(history')
          /\ Len(history') >= 1
          /\ history'[1].className = call'.className
          /\ history'[1].jsonString = call'.json
          /\ call'.className \in ClassNamesIn(history)
                => /\ Len(history') = Len(history)
                   /\ ClassNamesIn(history') = ClassNamesIn(history)
          /\ call'.className \notin ClassNamesIn(history)
                => Len(history') = (IF Len(history) < 20 THEN Len(history) + 1 ELSE 20)
      ]_vars

C1_Witness ==
    /\ call.op = "saveToHistory"
    /\ Len(history) = 20
    /\ resaves = 1
    /\ Name(1) \notin ClassNamesIn(history)
    /\ history[1].jsonString = HistoryJsons[2]

(***************************************************************************)
(* The store of HistoryManager                                             *)
(***************************************************************************)
MaxClock == 1

\* The files importHistory is given: a file that is not JSON, and exports
\* holding Name(1) .. Name(size), all saved at the instant the clock starts at
ImportSizes == {maxHistoryItems - 1, maxHistoryItems + 1}

HMJson == JsonText(JObject(<<KV("id", JNumber("1"))>>), "compact")

ImportFile(size, ms) ==
    [valid |-> TRUE,
     entries |-> [i \in 1..size |->
                    KV(Name(i), HistoryEntry(Name(i), HMJson, ToISOString(ms)))]]

MalformedFile == [valid |-> FALSE, entries |-> <<>>]

ImportFiles == {MalformedFile} \cup {ImportFile(size, 0) : size \in ImportSizes}

\* The class names saved and deleted by hand
HMNames == {Name(1), Name(maxHistoryItems + 2)}

Tick ==
    /\ now < MaxClock
    /\ now' = now + 1
    /\ UNCHANGED <<page, savedHistory, options, options2, currentClassName, call, ret, ret2, history, resaves, store>>

\* historyManager.saveToHistory(className, jsonString)
HMSaveToHistory(className, jsonString) ==
    /\ store' = HM_saveToHistory(store, className, jsonString, now)
    /\ call' = Call("HistoryManager.saveToHistory", className, jsonString, <<>>)
    /\ UNCHANGED <<page, savedHistory, options, options2, currentClassName, ret, ret2, history, resaves, now>>

\* historyManager.deleteHistoryItem(className); the user may cancel the dialog
HMDeleteHistoryItem(className, confirmed) ==
    /\ store' = IF confirmed THEN HM_deleteHistoryItem(store, className) ELSE store
    /\ call' = Call("HistoryManager.deleteHistoryItem", className, NoJson, <<>>)
    /\ UNCHANGED <<page, savedHistory, options, options2, currentClassName, ret, ret2, history, resaves, now>>

\* historyManager.clearHistory(); the user may cancel the dialog
HMClearHistory(confirmed) ==
    /\ store' = IF confirmed THEN <<>> ELSE store
    /\ call' = Call("HistoryManager.clearHistory", "", NoJson, <<>>)
    /\ UNCHANGED <<page, savedHistory, options, options2, currentClassName, ret, ret2, history, resaves, now>>

\* historyManager.importHistory(file), when the file has been read
HMImportHistory(file) ==
    /\ store' = HM_importHistory(store, file)
    /\ call' = Call("HistoryManager.importHistory", "", NoJson, <<>>)
    /\ UNCHANGED <<page, savedHistory, options, options2, currentClassName, ret, ret2, history, resaves, now>>

NextHM ==
    \/ Tick
    \/ \E className \in HMNames : HMSaveToHistory(className, HMJson)
    \/ \E className \in HMNames, confirmed \in BOOLEAN : HMDeleteHistoryItem(className, confirmed)
    \/ \E confirmed \in BOOLEAN : HMClearHistory(confirmed)
    \/ \E file \in ImportFiles : HMImportHistory(file)

SpecHM == Init /\ [][NextHM]_vars

\* C2: in every state reachable by saveToHistory, deleteHistoryItem,
\* clearHistory and importHistory the persisted history object holds at most
\* 50 entries.
C2_StoreAtMostFifty == Len(store) <= 50

\* A step in which saveToHistory ran: the clock stands still and the last
\* operation is a save
SaveStep == call'.op = "HistoryManager.saveToHistory" /\ now' = now

\* The entries of the store before the save that the store after it has lost
Evicted(before, after, saved) ==
    {i \in 1..Len(before) : before[i].key # saved /\ ~HasKey(after, before[i].key)}

\* C21: after saveToHistory(c, j) the persisted store holds an entry for c
\* with the JSON j, whatever the store held before (more than 50 entries,
\* imported entries, equal timestamps), and every entry the trim evicts has a
\* timestamp no newer than that of any entry kept.
C21_SavedEntrySurvivesTrim ==
    [][SaveStep =>
        /\ HasKey(store', call'.className)
        /\ ValueOf(store', call'.className).jsonString = call'.json
        /\ \A i \in Evicted(store, store', call'.className), k \in 1..Len(store') :
              store[i].value.timestamp.ms <= store'[k].value.timestamp.ms]_vars

(***************************************************************************)
(* The inference functions of DartGenerator, applied to drawn inputs       *)
(***************************************************************************)
\* A call of a function with one argument, and the value it returned
Apply(op, arg) ==
    [op |-> op, className |-> "", json |-> NoJson, settings |-> <<>>, arg |-> arg]

Computed(value) == [kind |-> "value", text |-> EmptyText, message |-> "", value |-> value]

\* Keys: every string of at most MaxKeyLen characters over an underscore, a
\* lower-case letter, an upper-case letter and a digit
MaxKeyLen == 4

KeyAlphabet == {"_", "a", "B", "1"}

RECURSIVE StringsUpTo(_)
StringsUpTo(n) ==
    IF n = 0 THEN {""}
    ELSE LET shorter == StringsUpTo(n - 1)
         IN shorter \cup {str \o ch : str \in shorter, ch \in KeyAlphabet}

CamelKeys == StringsUpTo(MaxKeyLen)

\* Values: scalars, null and objects, and arrays of them nested MaxDepth deep
MaxDepth == 2

ScalarValues ==
    {JString("x"), JBoolean("true"), JNumber("1"), JNumber("1.5"), JNumber("-2"),
     JNumber("1e+21"), JNumber("1e-7"), JNull,
     JObject(<<>>), JObject(<<KV("a", JNumber("1"))>>)}

SecondElements == {JString("x"), JNumber("1.5"), JNull}

RECURSIVE ValuesUpTo(_)
ValuesUpTo(depth) ==
    IF depth = 0 THEN ScalarValues
    ELSE LET inner == ValuesUpTo(depth - 1)
         IN inner \cup {JArray(<<>>)}
                  \cup {JArray(<<v>>) : v \in inner}
                  \cup {JArray(<<v, w>>) : v \in inner, w \in SecondElements}

TypedValues == ValuesUpTo(MaxDepth)

\* Objects: at most MaxKeys distinct keys, in every order, legal and not
MaxKeys == 2

KeyPool == {"id", "user_id", "userId", "class", "is", "2nd", "a-b", "_Tmp", "__x", ""}

MemberValues == {JNumber("1"), JNull}

RECURSIVE EntriesUpTo(_)
EntriesUpTo(n) ==
    IF n = 0 THEN {<<>>}
    ELSE LET shorter == EntriesUpTo(n - 1)
         IN shorter \cup {Append(es, KV(k, v)) :
                            es \in shorter,
                            k \in KeyPool,
                            v \in MemberValues}

DistinctKeys(es) == \A i, j \in 1..Len(es) : es[i].key = es[j].key => i = j

SampleObjects == {JObject(es) : es \in {x \in EntriesUpTo(MaxKeys) : DistinctKeys(x)}}

\* generator.toCamelCase(key)
ToCamelCase(key) ==
    /\ Idle
    /\ call' = Apply("toCamelCase", key)
    /\ ret' = Computed(toCamelCase(key))
    /\ UNCHANGED <<page, savedHistory, options, options2, currentClassName, ret2, history, resaves, store, now>>

\* generator.inferDartType(value)
InferDartType(value) ==
    /\ Idle
    /\ call' = Apply("inferDartType", value)
    /\ ret' = Computed(inferDartType(options, value))
    /\ UNCHANGED <<page, savedHistory, options, options2, currentClassName, ret2, history, resaves, store, now>>

\* generator.extractProperties(obj)
ExtractProperties(obj) ==
    /\ Idle
    /\ call' = Apply("extractProperties", obj)
    /\ ret' = Computed(extractProperties(options, obj))
    /\ UNCHANGED <<page, savedHistory, options, options2, currentClassName, ret2, history, resaves, store, now>>

NextInfer ==
    \/ \E useNum \in BOOLEAN : SetOptions([x \in {"useNum"} |-> useNum])
    \/ \E key \in CamelKeys : ToCamelCase(key)
    \/ \E value \in TypedValues : InferDartType(value)
    \/ \E obj \in SampleObjects : ExtractProperties(obj)
    \/ Return

SpecInfer == Init /\ [][NextInfer]_vars

(***************************************************************************)
(* Claims about the inference functions                                    *)
(***************************************************************************)
IsLetter(ch) == IsLower(ch) \/ IsUpper(ch)

\* The key is legal as the claims have it: it matches [A-Za-z_][A-Za-z0-9_]*
\* and its camel-cased form is not a reserved keyword
LegalKey(key) == MatchesIdentifier(key) /\ toCamelCase(key) \notin DartKeywords

\* The position among the entries of the k-th legal key
LegalIndex(entries, k) ==
    CHOOSE i \in 1..Len(entries) :
        /\ LegalKey(entries[i].key)
        /\ Cardinality({j \in 1..i : LegalKey(entries[j].key)}) = k

\* C11: extractProperties yields exactly one descriptor per key of a
\* non-empty object that matches [A-Za-z_][A-Za-z0-9_]* and whose camel-cased
\* form is not a reserved keyword, none for any other key, and the
\* descriptors are in the object's key order.
C11_OneDescriptorPerLegalKeyInOrder ==
    (call.op = "extractProperties" /\ Len(call.arg.items) > 0) =>
        LET entries == call.arg.items
            descriptors == ret.value
        IN /\ Len(descriptors) = Cardinality({i \in 1..Len(entries) : LegalKey(entries[i].key)})
           /\ \A k \in 1..Len(descriptors) :
                 /\ descriptors[k].jsonKey = entries[LegalIndex(entries, k)].key
                 /\ descriptors[k].value = entries[LegalIndex(entries, k)].value

C11_Witness ==
    /\ call.op = "extractProperties"
    /\ ObjectKeys(call.arg) = <<"user_id", "class">>
    /\ Len(ret.value) = 1
    /\ ret.value[1].jsonKey = "user_id"
    /\ ret.value[1].name = "userId"

\* The type the claim gives a value that is not an array
ScalarType(useNum, value) ==
    CASE value.kind = "string" -> "String"
      [] value.kind = "boolean" -> "bool"
      [] value.kind = "number" ->
            IF useNum THEN "num"
            ELSE IF Includes(value.lit, ".") \/ Includes(value.lit, "e-") THEN "double" ELSE "int"
      [] value.kind = "object" -> "Map<String, dynamic>"
      [] value.kind = "null" -> "dynamic"

\* The nesting of an array: how many times its first element can be taken
\* before the value is not an array with elements, and the value found there
RECURSIVE FirstDown(_)
FirstDown(value) ==
    IF IsArray(value) /\ Len(value.items) > 0
    THEN LET below == FirstDown(value.items[1].value)
         IN [levels |-> below.levels + 1, leaf |-> below.leaf]
    ELSE [levels |-> 0, leaf |-> value]

RECURSIVE ListOf(_, _)
ListOf(levels, type) == IF levels = 0 THEN type ELSE "List<" \o ListOf(levels - 1, type) \o ">"

\* C12: inferDartType gives a string String, a boolean bool, a number int
\* without a fractional part and double with one (num for both with useNum
\* on), an object the generic map type, an array List of the type of its
\* first element only (List<dynamic> when it is empty), null dynamic, and
\* returns a type for every such value.
C12_TypeByRuntimeKind ==
    call.op = "inferDartType" =>
        LET down == FirstDown(call.arg)
            leafType == IF IsArray(down.leaf) THEN "List<dynamic>"
                        ELSE ScalarType(options.useNum, down.leaf)
        IN /\ ret.kind = "value"
           /\ ret.value = ListOf(down.levels, leafType)

C12_Witness ==
    /\ call.op = "inferDartType"
    /\ call.arg = JArray(<<JArray(<<JNumber("1")>>), JString("x")>>)
    /\ ret.value = "List<List<int>>"

\* The key with every underscore at a position of `removed` dropped and the
\* character after each of them upper-cased
Camel(key, removed) ==
    LET piece(i) == IF i \in removed THEN ""
                    ELSE IF (i - 1) \in removed THEN ToUpperChar(CharAt(key, i))
                    ELSE CharAt(key, i)
        RECURSIVE upTo(_)
        upTo(i) == IF i = 0 THEN "" ELSE upTo(i - 1) \o piece(i)
    IN upTo(Len(key))

UnderscoresBefore(key, Follows(_)) ==
    {i \in 1..(Len(key) - 1) : CharAt(key, i) = "_" /\ Follows(CharAt(key, i + 1))}

\* C19 as stated: the identifier of a legal key is the key with each
\* underscore that is immediately followed by a letter removed and that
\* letter upper-cased, so it has no underscore immediately followed by a letter.
C19_UnderscoreLetterRemoved ==
    (call.op = "toCamelCase" /\ MatchesIdentifier(call.arg)) =>
        /\ ret.value = Camel(call.arg, UnderscoresBefore(call.arg, IsLetter))
        /\ UnderscoresBefore(ret.value, IsLetter) = {}

\* C19 (amended): the identifier of a legal key is the key with each
\* underscore that is immediately followed by a lower-case letter removed and
\* that letter upper-cased, all other characters unchanged, so it has no
\* underscore immediately followed by a lower-case letter.
C19_UnderscoreLowerRemoved ==
    (call.op = "toCamelCase" /\ MatchesIdentifier(call.arg)) =>
        /\ ret.value = Camel(call.arg, UnderscoresBefore(call.arg, IsLower))
        /\ UnderscoresBefore(ret.value, IsLower) = {}

C19_Witness ==
    /\ call.op = "toCamelCase"
    /\ call.arg = "_a_a"
    /\ ret.value = "AA"

(***************************************************************************)
(* JsonToDartConverter.convert, driven from the page                       *)
(***************************************************************************)
\* String.prototype.trim on a string without line breaks
TrimStr(str) == TrimEndLine(TrimStartLine(str))

\* getCurrentSettings(): every checkbox of the page, by key
getCurrentSettings(boxes) == boxes

\* What convert reports without rendering: the message shown when an input
\* is missing or JSON.parse throws, "" when the inputs parse
convertRejects(className, jsonString) ==
    IF className = "" THEN "Please enter a class name"
    ELSE IF jsonString = EmptyInput THEN "Please enter JSON data"
    ELSE IF ~jsonString.valid THEN "Error: " \o SyntaxErrorMessage
    ELSE ""

\* The render call convert makes with the settings: the nested renderer,
\* after setCurrentClassName, when modelNew is checked, else the standard
\* renderer after setOptions
convertRender(opts, className, jsonString, settings) ==
    IF settings.modelNew
    THEN New_generate(setCurrentClassName(className), className, jsonString.value, settings)
    ELSE generateDartClass(setOptions(opts, settings), className,
                           JSONStringify2(jsonString.value))

dartOutputAfter_ClearedOnError(output, outcome) ==
    IF outcome.kind = "text" THEN outcome.text ELSE EmptyText

\* this.dartOutput.value = dartClass is reached only when nothing threw
dartOutputAfter(output, outcome) ==
    IF outcome.kind = "text" THEN outcome.text ELSE output

\* What the user types and checks; each input event also runs saveSettings,
\* whose localStorage item is read by the constructor only
TypedClassNames == {"", "User", " Item "}

TypedJsons ==
    {EmptyInput, MalformedText, JsonText(SampleUser, "compact"),
     JsonText(JArray(<<>>), "compact"), JsonText(JNull, "compact")}

ToggledKeys == {"modelNew", "generateComment"}

TypeClassName(text) ==
    /\ Idle
    /\ classNameInput' = text
    /\ UNCHANGED <<jsonInput, checkboxes, dartOutput, savedHistory, options, options2,
                   currentClassName, call, ret, ret2, history, resaves, store, now>>

TypeJson(text) ==
    /\ Idle
    /\ jsonInput' = text
    /\ UNCHANGED <<classNameInput, checkboxes, dartOutput, savedHistory, options, options2,
                   currentClassName, call, ret, ret2, history, resaves, store, now>>

ToggleCheckbox(key) ==
    /\ Idle
    /\ checkboxes' = [checkboxes EXCEPT ![key] = ~checkboxes[key]]
    /\ UNCHANGED <<classNameInput, jsonInput, dartOutput, savedHistory, options, options2,
                   currentClassName, call, ret, ret2, history, resaves, store, now>>

\* convert(), up to and including this.dartOutput.value = dartClass, or to
\* the return or the catch that ends it
Convert ==
    LET className == TrimStr(classNameInput)
        jsonString == jsonInput
        rejected == convertRejects(className, jsonString)
        settings == getCurrentSettings(checkboxes)
        outcome == IF rejected # "" THEN Thrown(rejected)
                   ELSE convertRender(options, className, jsonString, settings)
    IN /\ Idle
       /\ call' = Call("convert", className, jsonString, settings)
       /\ ret' = IF rejected = "" /\ outcome.kind = "error"
                 THEN Thrown("Error: " \o outcome.message)
                 ELSE outcome
       /\ jsonInput' = IF rejected = "" THEN JSONStringify2(jsonString.value) ELSE jsonInput
       /\ currentClassName' = IF rejected = "" /\ settings.modelNew
                              THEN setCurrentClassName(className) ELSE currentClassName
       /\ options' = IF rejected = "" /\ ~settings.modelNew
                     THEN setOptions(options, settings) ELSE options
       /\ dartOutput' = dartOutputAfter(dartOutput, outcome)
       /\ UNCHANGED <<classNameInput, checkboxes, savedHistory, options2, ret2,
                      history, resaves, store, now>>

\* The rest of convert() after a render that returned: saveToHistory,
\* saveSettings, showSuccess
ConvertSave ==
    /\ call.op = "convert"
    /\ ret.kind = "text"
    /\ history' = saveToHistory(history, call.className, JSONStringify2(call.json.value), now)
    /\ savedHistory' = history'
    /\ call' = NoCall
    /\ ret' = NoResult
    /\ UNCHANGED <<page, options, options2, currentClassName, ret2, resaves, store, now>>

\* The end of a convert() that reported an error
ConvertShowError ==
    /\ call.op = "convert"
    /\ ret.kind = "error"
    /\ Return

NextConvert ==
    \/ \E text \in TypedClassNames : TypeClassName(text)
    \/ \E text \in TypedJsons : TypeJson(text)
    \/ \E key \in ToggledKeys : ToggleCheckbox(key)
    \/ Convert
    \/ ConvertSave
    \/ ConvertShowError

SpecConvert == Init /\ [][NextConvert]_vars

(***************************************************************************)
(* Claims about convert                                                    *)
(***************************************************************************)
EndsWith(text, suffix) ==
    /\ Len(text) >= Len(suffix)
    /\ SubSeq(text, Len(text) - Len(suffix) + 1, Len(text)) = suffix

\* The text ends with a comment holding the pretty-printed value: line
\* comments, or one block comment
EndsWithJsonComment(text, value) ==
    LET pretty == StringifyLines(value, "")
    IN \/ EndsWith(text, [i \in 1..Len(pretty) |-> "// " \o pretty[i]])
       \/ EndsWith(text, <<"/*">> \o pretty \o <<"*/">>)

EndsWithComment(text) ==
    HasPrefix(text[Len(text)], "//") \/ HasSuffix(text[Len(text)], "*/")

ConvertReturned == call.op = "convert" /\ ret.kind = "text"

\* C17: in both renderers, driven by convert() with the settings read from
\* the checkboxes, the output ends with a comment holding the pretty-printed
\* source JSON if and only if generateComment is checked.
C17_TrailingCommentIffChecked ==
    ConvertReturned =>
        /\ dartOutput = ret.text
        /\ IF checkboxes.generateComment
           THEN \/ EndsWithJsonComment(dartOutput, call.json.value)
                \/ EndsWithJsonComment(dartOutput, TemplateOf(call.json.value))
           ELSE ~EndsWithComment(dartOutput)

\* C20: a convert() that fails, by a missing class name, a missing JSON
\* text, a parse error, an empty array or an exception of the renderer,
\* leaves the output text and the history, in memory and persisted, as they
\* were; the history gains an entry only for a conversion whose render
\* returned, after the output text was set to what it returned.
C20_FailedConvertChangesNothing ==
    [][/\ (call'.op = "convert" /\ ret'.kind = "error")
            => /\ dartOutput' = dartOutput
               /\ history' = history
               /\ savedHistory' = savedHistory
       /\ (history' # history \/ savedHistory' # savedHistory)
            => /\ ConvertReturned
               /\ dartOutput = ret.text
               /\ dartOutput' = dartOutput
               /\ history'[1].className = call.className
               /\ savedHistory' = history'
      ]_vars

\* A convert() failed on an empty array after one that succeeded
C20_Witness ==
    /\ call.op = "convert"
    /\ ret = Thrown("Error: Invalid JSON: " \o EmptyArrayMessage)
    /\ dartOutput # EmptyText
    /\ Len(history) = 1
    /\ savedHistory = history

====
